---- MODULE Spec2Model ----
(***************************************************************************)
(* pos_sync/api.py: the push path (push_batch and its four handlers) and   *)
(* the pull path (pull_catalog) of the EnZo POS sync app, as state          *)
(* machines over the site database.                                        *)
(*                                                                         *)
(* Every scalar the code stores is a string here; the Python value None    *)
(* (a missing key of a dict, an empty lookup) is the string "None".        *)
(***************************************************************************)
EXTENDS Integers, Sequences, FiniteSets, TLC

VARIABLES
    naming,     \* the DocTypes' autoname rule on this site: "field" or "hash"
    dev,        \* the kind of device that talks to the site (fixes what it sends)
    store,      \* the committed database
    pc,         \* push_batch: "idle", "running", "returned" or "aborted" (it raised)
    batch,      \* the request's batch
    pos,        \* items of the batch the loop has finished
    processed,  \* push_batch's list processed
    failed,     \* push_batch's list failed
    before,     \* history: the committed database when the request arrived
    sent,       \* history: items the device has sent so far
    replayed,   \* history: the running request resends the batch before it
    faulted,    \* history: a store call has raised in this run
    last,       \* history: the item the loop finished last and what raised in it
    acked,      \* history: every entry a returned response listed in processed
    txs,        \* concurrent requests: each one's position, snapshot and lists
    catalog,    \* the Item and Item Group masters that pull_catalog reads
    pulled      \* history: the two latest responses of pull_catalog, with their since

vars == <<naming, dev, store, pc, batch, pos, processed, failed, before, sent,
          replayed, faulted, last, acked, txs, catalog, pulled>>

\* ------------------------------------------------------------------ bounds
\* Items one device sends in all (over all its batches) before it stops.
MaxItems == 2

\* ------------------------------------------------------------------ values
None == "None"

\* now_datetime(): the clock is one abstract instant.
Now == "now"

\* dict.get(key, default): a key the payload lacks reads as None in the record.
Get(d, key, default) == IF d[key] = None THEN default ELSE d[key]

\* str.title() on the payment methods the devices send.
Title(s) ==
    CASE s = "cash" -> "Cash"
      [] s = "CASH" -> "Cash"
      [] s = "card" -> "Card"
      [] OTHER -> s

\* ------------------------------------------------------------------ store
\* The four custom DocTypes and the naming series of receipt numbers.
EmptyStore ==
    [orders |-> {}, refunds |-> {}, shifts |-> {}, cash_events |-> {}, series |-> 0]

\* The entity_type values push_batch dispatches on, and each one's DocType.
Kinds == {"order", "refund", "shift", "cash_event"}

TableOf(db, kind) ==
    CASE kind = "order" -> db.orders
      [] kind = "refund" -> db.refunds
      [] kind = "shift" -> db.shifts
      [] kind = "cash_event" -> db.cash_events
      [] OTHER -> {}

\* frappe.db.get_value(doctype, {"client_uuid": uuid}, "name")
GetValue(table, uuid) ==
    IF \E r \in table : r.client_uuid = uuid
    THEN (CHOOSE r \in table : r.client_uuid = uuid).name
    ELSE None

\* The DocTypes' autoname: "field:client_uuid (or use hash naming)". A hash
\* name is a fresh identifier of the request that inserts the document.
MakeName(nm, req, table, uuid) ==
    IF nm = "field"
    THEN uuid
    ELSE "h" \o ToString(req) \o "-" \o ToString(Cardinality(table) + 1)

\* doc.insert(): the primary key (name) is unique.
CanInsert(table, name) == \A r \in table : r.name # name

\* A handler's result: the transaction's view of the database after it, the
\* value it returns, and the exception it raised (None when it returned).
Returned(db, ret) == [db |-> db, ret |-> ret, err |-> None]
Raised(db, e) == [db |-> db, ret |-> None, err |-> e]

\* ---------------------------------------------------------------- handlers
\* Each handler runs inside the request's open transaction: db is that
\* transaction's view. f names the store call that raises in this run of the
\* handler ("none": no call raises).

\* doc = frappe.new_doc("Offline POS Order") filled from the payload.
NewOrder(name, uuid, payload, device_id, receipt) ==
    LET order_data == payload.order IN
    [name |-> name,
     client_uuid |-> uuid,
     device_id |-> device_id,
     store_id |-> Get(order_data, "shift_id", ""),
     cashier |-> Get(order_data, "cashier_name", ""),
     customer |-> Get(order_data, "customer", "Walk-in"),
     order_date |-> Get(order_data, "created_at_local", Now),
     subtotal |-> Get(order_data, "subtotal", "0"),
     discount_amount |-> Get(order_data, "discount_amount", "0"),
     tax_amount |-> Get(order_data, "tax_amount", "0"),
     grand_total |-> Get(order_data, "total", "0"),
     status |-> Get(order_data, "status", "Completed"),
     items |-> [i \in 1..Len(payload.items) |->
                  [item_code |-> payload.items[i].product_uuid,
                   item_name |-> payload.items[i].product_name,
                   qty |-> payload.items[i].qty,
                   rate |-> payload.items[i].unit_price,
                   discount_percentage |-> Get(payload.items[i], "line_discount", "0"),
                   amount |-> payload.items[i].line_total]],
     payments |-> [i \in 1..Len(payload.payments) |->
                  [mode_of_payment |-> Title(Get(payload.payments[i], "method", "Cash")),
                   amount |-> payload.payments[i].amount]],
     receipt_number |-> receipt]

\* The lookup that decides create against update/replay.
OrderExisting(db, uuid) == GetValue(db.orders, uuid)

\* An update that copies the payload's total as well as its status.
OrderUpdateWithTotal(doc, payload) ==
    [doc EXCEPT !.status = Get(payload.order, "status", doc.status),
                !.grand_total = Get(payload.order, "total", doc.grand_total)]

\* The update branch: only status is taken from the payload, then doc.save().
OrderUpdate(doc, payload) ==
    [doc EXCEPT !.status = Get(payload.order, "status", doc.status)]

HandleOrder(req, nm, db, uuid, operation, payload, device_id, f) ==
    IF payload.shape # "dict" THEN Raised(db, "AttributeError")
    ELSE IF f = "get_value" THEN Raised(db, "StoreError")
    ELSE
    LET existing == OrderExisting(db, uuid) IN
    IF existing # None /\ operation = "create" THEN Returned(db, existing)
    ELSE IF existing = None THEN
        LET name == MakeName(nm, req, db.orders, uuid)
            receipt == db.series + 1
            seq == [db EXCEPT !.series = receipt]
            doc == NewOrder(name, uuid, payload, device_id, receipt)
        IN  IF f = "insert" THEN Raised(seq, "StoreError")
            ELSE IF ~CanInsert(db.orders, name) THEN Raised(seq, "DuplicateEntryError")
            ELSE Returned([seq EXCEPT !.orders = @ \cup {doc}], name)
    ELSE
        LET doc == CHOOSE r \in db.orders : r.name = existing IN
        IF f = "save" THEN Raised(db, "StoreError")
        ELSE Returned([db EXCEPT !.orders = (@ \ {doc}) \cup {OrderUpdate(doc, payload)}],
                      doc.name)

\* A Refund that takes the client-side reference as its link when the lookup
\* of the Order found nothing.
NewRefundDangling(name, uuid, payload, device_id, original) ==
    [name |-> name,
     client_uuid |-> uuid,
     device_id |-> device_id,
     order_uuid |-> payload.order_uuid,
     reason |-> Get(payload, "reason", ""),
     amount |-> Get(payload, "amount", "0"),
     status |-> Get(payload, "status", "Processed"),
     refund_date |-> Get(payload, "created_at_local", Now),
     original_order |-> IF original = None THEN payload.order_uuid ELSE original]

\* doc = frappe.new_doc("Offline POS Refund") with the link to its order.
NewRefund(name, uuid, payload, device_id, original) ==
    [name |-> name,
     client_uuid |-> uuid,
     device_id |-> device_id,
     order_uuid |-> payload.order_uuid,
     reason |-> Get(payload, "reason", ""),
     amount |-> Get(payload, "amount", "0"),
     status |-> Get(payload, "status", "Processed"),
     refund_date |-> Get(payload, "created_at_local", Now),
     original_order |-> original]

\* A cascade that also zeroes the total of the refunded Order.
MarkRefundedZeroed(orders, original) ==
    {IF r.name = original THEN [r EXCEPT !.status = "Refunded", !.grand_total = "0"] ELSE r
       : r \in orders}

\* Mutant: the write of status "Refunded" is left out.
MarkRefundedNot(orders, original) == orders

\* frappe.db.set_value("Offline POS Order", original, "status", "Refunded")
MarkRefunded(orders, original) ==
    {IF r.name = original THEN [r EXCEPT !.status = "Refunded"] ELSE r : r \in orders}

RefundExisting(db, uuid) == GetValue(db.refunds, uuid)

\* A handler that, for a Refund that exists already, writes the status of the
\* referenced Order again before it returns.
HandleRefundRemarking(req, nm, db, uuid, operation, payload, device_id, f) ==
    IF f = "get_value" THEN Raised(db, "StoreError")
    ELSE
    LET existing == RefundExisting(db, uuid) IN
    IF existing # None
    THEN LET doc == CHOOSE r \in db.refunds : r.name = existing IN
         Returned([db EXCEPT !.orders = MarkRefunded(@, doc.original_order)], existing)
    ELSE IF payload.shape # "dict" THEN Raised(db, "AttributeError")
    ELSE
        LET name == MakeName(nm, req, db.refunds, uuid)
            original == GetValue(db.orders, payload.order_uuid)
            doc == NewRefund(name, uuid, payload, device_id, original)
            inserted == [db EXCEPT !.refunds = @ \cup {doc}]
        IN  IF f = "insert" THEN Raised(db, "StoreError")
            ELSE IF ~CanInsert(db.refunds, name) THEN Raised(db, "DuplicateEntryError")
            ELSE IF original = None THEN Returned(inserted, name)
            ELSE IF f = "set_value" THEN Raised(inserted, "StoreError")
            ELSE Returned([inserted EXCEPT !.orders = MarkRefunded(@, original)], name)

HandleRefund(req, nm, db, uuid, operation, payload, device_id, f) ==
    IF f = "get_value" THEN Raised(db, "StoreError")
    ELSE
    LET existing == RefundExisting(db, uuid) IN
    IF existing # None THEN Returned(db, existing)
    ELSE IF payload.shape # "dict" THEN Raised(db, "AttributeError")
    ELSE
        LET name == MakeName(nm, req, db.refunds, uuid)
            original == GetValue(db.orders, payload.order_uuid)
            doc == NewRefund(name, uuid, payload, device_id, original)
            inserted == [db EXCEPT !.refunds = @ \cup {doc}]
        IN  IF f = "insert" THEN Raised(db, "StoreError")
            ELSE IF ~CanInsert(db.refunds, name) THEN Raised(db, "DuplicateEntryError")
            ELSE IF original = None THEN Returned(inserted, name)
            ELSE IF f = "set_value" THEN Raised(inserted, "StoreError")
            ELSE Returned([inserted EXCEPT !.orders = MarkRefunded(@, original)], name)

\* doc = frappe.new_doc("Offline POS Shift"); the closing fields stay unset.
NewShift(name, uuid, payload, device_id) ==
    [name |-> name,
     client_uuid |-> uuid,
     device_id |-> device_id,
     cashier |-> Get(payload, "cashier_id", ""),
     opened_at |-> Get(payload, "opened_at", Now),
     float_amount |-> Get(payload, "float_amount", "0"),
     status |-> IF payload.status = "open" THEN "Open" ELSE "Closed",
     closed_at |-> None,
     expected_cash |-> None,
     counted_cash |-> None,
     variance |-> None]

\* Mutant: the closing update forgets variance.
CloseShiftNoVariance(doc, payload) ==
    [doc EXCEPT !.status = "Closed",
                !.closed_at = payload.closed_at,
                !.expected_cash = payload.expected_cash,
                !.counted_cash = payload.counted_cash]

\* frappe.db.set_value("Offline POS Shift", existing, {...}): the closing fields.
CloseShift(doc, payload) ==
    [doc EXCEPT !.status = "Closed",
                !.closed_at = payload.closed_at,
                !.expected_cash = payload.expected_cash,
                !.counted_cash = payload.counted_cash,
                !.variance = payload.variance]

ShiftExisting(db, uuid) == GetValue(db.shifts, uuid)

\* A handler that takes the status of an existing Shift from every payload:
\* "open" reopens it.
HandleShiftReopening(req, nm, db, uuid, operation, payload, device_id, f) ==
    IF f = "get_value" THEN Raised(db, "StoreError")
    ELSE
    LET existing == ShiftExisting(db, uuid) IN
    IF payload.shape # "dict" THEN Raised(db, "AttributeError")
    ELSE IF existing # None THEN
        IF payload.status = "closed" THEN
            IF f = "set_value" THEN Raised(db, "StoreError")
            ELSE Returned([db EXCEPT !.shifts =
                             {IF r.name = existing THEN CloseShift(r, payload) ELSE r : r \in @}],
                          existing)
        ELSE IF payload.status = "open" THEN
            Returned([db EXCEPT !.shifts =
                        {IF r.name = existing THEN [r EXCEPT !.status = "Open"] ELSE r : r \in @}],
                     existing)
        ELSE Returned(db, existing)
    ELSE
        LET name == MakeName(nm, req, db.shifts, uuid)
            doc == NewShift(name, uuid, payload, device_id)
        IN  IF f = "insert" THEN Raised(db, "StoreError")
            ELSE IF ~CanInsert(db.shifts, name) THEN Raised(db, "DuplicateEntryError")
            ELSE Returned([db EXCEPT !.shifts = @ \cup {doc}], name)

HandleShift(req, nm, db, uuid, operation, payload, device_id, f) ==
    IF f = "get_value" THEN Raised(db, "StoreError")
    ELSE
    LET existing == ShiftExisting(db, uuid) IN
    IF payload.shape # "dict" THEN Raised(db, "AttributeError")
    ELSE IF existing # None THEN
        IF payload.status = "closed" THEN
            IF f = "set_value" THEN Raised(db, "StoreError")
            ELSE Returned([db EXCEPT !.shifts =
                             {IF r.name = existing THEN CloseShift(r, payload) ELSE r : r \in @}],
                          existing)
        ELSE Returned(db, existing)
    ELSE
        LET name == MakeName(nm, req, db.shifts, uuid)
            doc == NewShift(name, uuid, payload, device_id)
        IN  IF f = "insert" THEN Raised(db, "StoreError")
            ELSE IF ~CanInsert(db.shifts, name) THEN Raised(db, "DuplicateEntryError")
            ELSE Returned([db EXCEPT !.shifts = @ \cup {doc}], name)

\* doc = frappe.new_doc("Offline POS Cash Event")
NewCashEvent(name, uuid, payload, device_id) ==
    [name |-> name,
     client_uuid |-> uuid,
     device_id |-> device_id,
     shift_id |-> payload.shift_id,
     event_type |-> IF payload.type = "in" THEN "Cash In" ELSE "Cash Out",
     amount |-> Get(payload, "amount", "0"),
     reason |-> Get(payload, "reason", ""),
     event_date |-> Get(payload, "created_at_local", Now)]

\* Mutant: the handler skips the lookup by client_uuid.
CashEventExistingNever(db, uuid) == None

CashEventExisting(db, uuid) == GetValue(db.cash_events, uuid)

HandleCashEvent(req, nm, db, uuid, operation, payload, device_id, f) ==
    IF f = "get_value" THEN Raised(db, "StoreError")
    ELSE
    LET existing == CashEventExisting(db, uuid) IN
    IF existing # None THEN Returned(db, existing)
    ELSE IF payload.shape # "dict" THEN Raised(db, "AttributeError")
    ELSE
        LET name == MakeName(nm, req, db.cash_events, uuid)
            doc == NewCashEvent(name, uuid, payload, device_id)
        IN  IF f = "insert" THEN Raised(db, "StoreError")
            ELSE IF ~CanInsert(db.cash_events, name) THEN Raised(db, "DuplicateEntryError")
            ELSE Returned([db EXCEPT !.cash_events = @ \cup {doc}], name)

\* The if/elif chain of push_batch over entity_type.
Dispatch(req, nm, db, item, f) ==
    LET uuid == item.entity_uuid
        operation == item.operation
        payload == item.payload
        device_id == item.device_id
    IN  CASE item.entity_type = "order" ->
               HandleOrder(req, nm, db, uuid, operation, payload, device_id, f)
          [] item.entity_type = "refund" ->
               HandleRefund(req, nm, db, uuid, operation, payload, device_id, f)
          [] item.entity_type = "shift" ->
               HandleShift(req, nm, db, uuid, operation, payload, device_id, f)
          [] item.entity_type = "cash_event" ->
               HandleCashEvent(req, nm, db, uuid, operation, payload, device_id, f)
          [] OTHER -> Raised(db, "ValueError")

\* -------------------------------------------------------------- push_batch
ProcessedEntry(item, server_id) ==
    [outbox_id |-> item.outbox_id, entity_uuid |-> item.entity_uuid,
     server_id |-> server_id, status |-> "ok"]

FailedEntry(item, e) ==
    [outbox_id |-> item.outbox_id, entity_uuid |-> item.entity_uuid, error |-> e]

\* A pass of the loop whose except block records the failure but keeps what
\* the handler wrote before it raised.
ItemStepNoRollback(req, nm, st, item, f, rb) ==
    IF item.shape # "dict"
    THEN [st EXCEPT !.aborted = TRUE]
    ELSE
    LET h == Dispatch(req, nm, st.store, item, f) IN
    IF h.err # None
    THEN IF rb THEN [st EXCEPT !.aborted = TRUE]
         ELSE [st EXCEPT !.store = h.db, !.failed = Append(@, FailedEntry(item, h.err))]
    ELSE LET listed == Append(st.processed, ProcessedEntry(item, h.ret)) IN
         IF f = "commit"
         THEN IF rb THEN [st EXCEPT !.processed = listed, !.aborted = TRUE]
              ELSE [st EXCEPT !.processed = listed,
                              !.failed = Append(@, FailedEntry(item, "StoreError"))]
         ELSE [st EXCEPT !.store = h.db, !.processed = listed]

\* One pass of the for loop: st is [store, processed, failed, aborted]. f is
\* the store call that raises ("commit": frappe.db.commit()), rb tells that
\* frappe.db.rollback() raises too. An exception that leaves the except block
\* leaves push_batch: aborted.
ItemStep(req, nm, st, item, f, rb) ==
    IF item.shape # "dict"
    THEN \* item.get raises in the try block and again in the except block
         [st EXCEPT !.aborted = TRUE]
    ELSE
    LET h == Dispatch(req, nm, st.store, item, f) IN
    IF h.err # None
    THEN IF rb THEN [st EXCEPT !.aborted = TRUE]
         ELSE [st EXCEPT !.failed = Append(@, FailedEntry(item, h.err))]
    ELSE LET listed == Append(st.processed, ProcessedEntry(item, h.ret)) IN
         IF f = "commit"
         THEN IF rb THEN [st EXCEPT !.processed = listed, !.aborted = TRUE]
              ELSE [st EXCEPT !.processed = listed,
                              !.failed = Append(@, FailedEntry(item, "StoreError"))]
         ELSE [st EXCEPT !.store = h.db, !.processed = listed]

\* The whole loop over a batch with no store call raising, from item i on.
RECURSIVE RunFrom(_, _, _, _, _)
RunFrom(req, nm, st, b, i) ==
    IF i > Len(b) \/ st.aborted THEN st
    ELSE RunFrom(req, nm, ItemStep(req, nm, st, b[i], "none", FALSE), b, i + 1)

RunBatch(req, nm, db, b) ==
    RunFrom(req, nm, [store |-> db, processed |-> <<>>, failed |-> <<>>, aborted |-> FALSE], b, 1)

\* ------------------------------------------------------------------ inputs
FaultPoints == {"none", "get_value", "insert", "save", "set_value", "commit"}

OrderPayload(status, total) ==
    [shape |-> "dict",
     order |-> [shift_id |-> "s1", cashier_name |-> "ann", customer |-> None,
                created_at_local |-> None, subtotal |-> total, discount_amount |-> None,
                tax_amount |-> None, total |-> total, status |-> status],
     items |-> <<[product_uuid |-> "p1", product_name |-> "Tea", qty |-> "1",
                  unit_price |-> total, line_discount |-> None, line_total |-> total]>>,
     payments |-> <<[method |-> "cash", amount |-> total]>>]

RefundPayload(order_uuid) ==
    [shape |-> "dict", order_uuid |-> order_uuid, reason |-> "damaged", amount |-> "10",
     status |-> None, created_at_local |-> None]

OpenShiftPayload(status) ==
    [shape |-> "dict", status |-> status, cashier_id |-> "ann", opened_at |-> "t1",
     float_amount |-> "100", closed_at |-> None, expected_cash |-> None,
     counted_cash |-> None, variance |-> None]

CloseShiftPayload(closed_at, expected, counted, variance) ==
    [shape |-> "dict", status |-> "closed", cashier_id |-> "bob", opened_at |-> "t0",
     float_amount |-> "50", closed_at |-> closed_at, expected_cash |-> expected,
     counted_cash |-> counted, variance |-> variance]

CashPayload(type, shift_id) ==
    [shape |-> "dict", type |-> type, shift_id |-> shift_id, amount |-> "5",
     reason |-> None, created_at_local |-> None]

\* A payload that is not a dict (a JSON string, a number).
JunkPayload == [shape |-> "str"]

Item(entity_type, entity_uuid, operation, payload) ==
    [shape |-> "dict", entity_type |-> entity_type, entity_uuid |-> entity_uuid,
     operation |-> operation, payload |-> payload, outbox_id |-> 0, device_id |-> "d1"]

\* A batch element that is not a dict (a JSON string, null).
NotARecord == [shape |-> "str"]

CloseA == CloseShiftPayload("t8", "150", "140", "-10")
CloseB == CloseShiftPayload("t9", "150", "150", "0")

\* What each kind of device sends.
Templates(d) ==
    CASE d = "sales" ->
           {Item("order", "u1", "create", OrderPayload(None, "10")),
            Item("order", "u1", "update", OrderPayload("Held", "20")),
            Item("order", "u1", "update", OrderPayload(None, "10")),
            Item("order", "u2", "create", OrderPayload("Held", "20")),
            Item("refund", "r1", "create", RefundPayload("u1")),
            Item("refund", "r2", "update", RefundPayload("u2")),
            Item("invoice", "u1", "create", OrderPayload(None, "10")),
            NotARecord}
      [] d = "till" ->
           {Item("shift", "s1", "create", OpenShiftPayload("open")),
            Item("shift", "s1", "update", OpenShiftPayload("open")),
            Item("shift", "s1", "update", CloseA),
            Item("shift", "s1", "update", CloseB),
            Item("shift", "s2", "create", CloseA),
            Item("cash_event", "c1", "create", CashPayload("in", "s1")),
            Item("cash_event", "c2", "create", CashPayload("out", "s1")),
            Item("cash_event", "c1", "create", JunkPayload)}
      [] d = "mixed" ->
           {Item("order", "u1", "create", OrderPayload(None, "10")),
            Item("order", "u1", "update", JunkPayload),
            Item("refund", "r1", "create", RefundPayload("u1")),
            Item("shift", "s1", "create", OpenShiftPayload(None)),
            Item("shift", "s1", "update", CloseA),
            Item("cash_event", "c1", "create", CashPayload("in", "s1")),
            Item(None, "u1", "create", JunkPayload)}

Devices == {"sales", "till", "mixed"}

\* The batches a device may send: its outbox ids number the batch's items.
BatchesOf(d, n) ==
    UNION {[1..k -> Templates(d)] : k \in 0..n}

Numbered(b) ==
    [i \in 1..Len(b) |-> IF b[i].shape = "dict" THEN [b[i] EXCEPT !.outbox_id = i] ELSE b[i]]

\* ------------------------------------------------------------ pull_catalog
\* limit=500 of the Item query, scaled down: the page holds PageLimit rows.
PageLimit == 2

\* Instants of the site's clock at which a master record was last modified.
Times == 1..3

\* str(item.modified): the text of a datetime.
Str(t) == "2024-01-01 00:00:0" \o ToString(t)

\* The timestamp a device sends for the instant t.
Iso(t) == "2024-01-01T00:00:0" \o ToString(t) \o "Z"

\* The default of the parameter since.
DefaultSince == "1970-01-01T00:00:00Z"

\* since_dt = get_datetime(since); the epoch lies before every instant.
GetDatetime(since) ==
    IF since = DefaultSince THEN 0 ELSE CHOOSE t \in Times : Iso(t) = since

\* A row of the Item master with the fields the query selects or filters on.
CatalogItem(name, modified, is_sales_item) ==
    [name |-> name, item_name |-> "Tea " \o name, item_group |-> "g1",
     standard_rate |-> IF name = "i1" THEN None ELSE "10",
     disabled |-> IF name = "i2" THEN 1 ELSE 0,
     modified |-> modified, is_sales_item |-> is_sales_item]

\* A row of the Item Group master.
CatalogGroup(name, modified, is_group) ==
    [name |-> name, modified |-> modified, is_group |-> is_group]

NoCatalog == [items |-> {}, groups |-> {}]

\* filters=[["modified", ">=", since_dt], ["is_sales_item", "=", 1]]
MatchingItems(items, since_dt) ==
    {i \in items : i.modified >= since_dt /\ i.is_sales_item = 1}

\* order_by="modified desc", limit=500: every list the store may answer with.
\* Rows of equal modified come in an order the query does not fix, and which
\* of them fall under the limit is the store's choice.
Pages(rows) ==
    LET n == IF Cardinality(rows) < PageLimit THEN Cardinality(rows) ELSE PageLimit IN
    {p \in [1..n -> rows] :
        /\ \A i, j \in 1..n : i < j => (p[i] # p[j] /\ p[i].modified >= p[j].modified)
        /\ \A r \in rows :
              (\A i \in 1..n : p[i] # r) => \A i \in 1..n : p[i].modified >= r.modified}

\* The dict appended to products; the lookups of Item Barcode, Item Tax and
\* Bin read other tables and give barcode, tax_rate and stock, left out here.
Product(item) ==
    [uuid |-> item.name,
     sku |-> item.name,
     name |-> item.item_name,
     category |-> item.item_group,
     price |-> IF item.standard_rate = None THEN "0" ELSE item.standard_rate,
     active |-> IF item.disabled = 1 THEN 0 ELSE 1,
     track_stock |-> TRUE,
     updated_at |-> Str(item.modified)]

\* filters=[["modified", ">=", since_dt], ["is_group", "=", 0]], no limit;
\* categories = [{"uuid": g.name, "name": g.name} for g in groups], as a set.
Categories(groups, since_dt) ==
    {[uuid |-> g.name, name |-> g.name] :
        g \in {x \in groups : x.modified >= since_dt /\ x.is_group = 0}}

\* The dict pull_catalog returns, for one answer of the store to the Item
\* query; since is kept with it.
Response(since, page, groups) ==
    [since |-> since,
     products |-> [i \in 1..Len(page) |-> Product(page[i])],
     categories |-> Categories(groups, GetDatetime(since)),
     updated_at |-> Now,
     count |-> Len(page)]

NoPull == [since |-> None, products |-> <<>>, categories |-> {}, updated_at |-> None,
           count |-> 0]

\* The masters the pull path is run against: CatalogSize rows of one master,
\* modified at any instants (the order of the names is no restriction), at
\* most one of them filtered out by its flag, and one row of the other.
CatalogSize == PageLimit + 2

Stamps == {m \in [1..CatalogSize -> Times] : \A i, j \in 1..CatalogSize : i < j => m[i] <= m[j]}

ItemCatalogs ==
    {[items |-> {CatalogItem("i" \o ToString(k), m[k], IF k = out THEN 0 ELSE 1)
                   : k \in 1..CatalogSize},
      groups |-> {CatalogGroup("g1", 2, 0)}] : m \in Stamps, out \in 0..CatalogSize}

GroupCatalogs ==
    {[items |-> {CatalogItem("i1", 2, 1)},
      groups |-> {CatalogGroup("g" \o ToString(k), m[k], IF k = out THEN 1 ELSE 0)
                    : k \in 1..CatalogSize}] : m \in Stamps, out \in 0..CatalogSize}

Sinces == {DefaultSince} \cup {Iso(t) : t \in Times}

\* ----------------------------------------------------------------- machine
NoItem == [item |-> NotARecord, f |-> "none", rb |-> FALSE, outcome |-> "none"]

Init ==
    /\ naming \in {"field", "hash"}
    /\ dev \in Devices
    /\ store = EmptyStore
    /\ pc = "idle"
    /\ batch = <<>>
    /\ pos = 0
    /\ processed = <<>>
    /\ failed = <<>>
    /\ before = EmptyStore
    /\ sent = 0
    /\ replayed = FALSE
    /\ faulted = FALSE
    /\ last = NoItem
    /\ acked = {}
    /\ txs = <<>>
    /\ catalog = NoCatalog
    /\ pulled = <<NoPull, NoPull>>

\* A request arrives: push_batch(batch).
Submit ==
    /\ pc \in {"idle", "returned", "aborted"}
    /\ \E b \in BatchesOf(dev, MaxItems - sent) :
          /\ batch' = Numbered(b)
          /\ sent' = sent + Len(b)
    /\ pc' = "running"
    /\ pos' = 0
    /\ processed' = <<>>
    /\ failed' = <<>>
    /\ before' = store
    /\ replayed' = FALSE
    /\ last' = NoItem
    /\ UNCHANGED <<naming, dev, store, faulted, acked, txs, catalog, pulled>>

\* The device got the response and, after a restart, sends the same batch again.
Resubmit ==
    /\ pc = "returned"
    /\ ~replayed
    /\ Len(batch) > 0
    /\ pc' = "running"
    /\ pos' = 0
    /\ processed' = <<>>
    /\ failed' = <<>>
    /\ before' = store
    /\ replayed' = TRUE
    /\ last' = NoItem
    /\ UNCHANGED <<naming, dev, store, batch, sent, faulted, acked, txs, catalog, pulled>>

\* What the loop's pass over an item came to.
Outcome(st0, st1) ==
    IF st1.aborted THEN "aborted"
    ELSE IF Len(st1.processed) > Len(st0.processed)
         THEN IF Len(st1.failed) > Len(st0.failed) THEN "commit_failed" ELSE "ok"
         ELSE "failed"

\* One pass of the for loop of push_batch, whole: handler, commit or rollback.
ProcessItem ==
    /\ pc = "running"
    /\ pos < Len(batch)
    /\ \E f \in FaultPoints, rb \in BOOLEAN :
          LET item == batch[pos + 1]
              st == [store |-> store, processed |-> processed, failed |-> failed,
                     aborted |-> FALSE]
              plain == ItemStep(0, naming, st, item, "none", FALSE)
              hit == ItemStep(0, naming, st, item, f, FALSE)
              next == ItemStep(0, naming, st, item, f, rb)
              ef == IF hit # plain THEN f ELSE "none"
              erb == rb /\ next # hit
          IN  /\ (f # "none" \/ rb) => ~faulted
              /\ store' = next.store
              /\ processed' = next.processed
              /\ failed' = next.failed
              /\ pc' = IF next.aborted THEN "aborted" ELSE "running"
              /\ faulted' = (faulted \/ ef # "none" \/ erb)
              /\ last' = [item |-> item, f |-> ef, rb |-> erb, outcome |-> Outcome(st, next)]
    /\ pos' = pos + 1
    /\ UNCHANGED <<naming, dev, batch, before, sent, replayed, acked, txs, catalog, pulled>>

\* return {"processed": processed, "failed": failed}
Return ==
    /\ pc = "running"
    /\ pos = Len(batch)
    /\ pc' = "returned"
    /\ acked' = acked \cup
          {[entity_type |-> batch[processed[i].outbox_id].entity_type,
            entity_uuid |-> processed[i].entity_uuid,
            server_id |-> processed[i].server_id] : i \in 1..Len(processed)}
    /\ UNCHANGED <<naming, dev, store, batch, pos, processed, failed, before, sent,
                   replayed, faulted, last, txs, catalog, pulled>>

Next == Submit \/ Resubmit \/ ProcessItem \/ Return

Spec == Init /\ [][Next]_vars

\* ------------------------------------------------- two requests at a time
\* Two devices push at once; each request runs on its own connection, so each
\* has its own transaction. A request's pass over its item is three steps:
\* the handler's lookups (which fix what the transaction sees), the handler's
\* writes, and frappe.db.commit().
Reqs == {1, 2}

ConcItems ==
    {[Item("order", "u1", "create", OrderPayload(None, "10")) EXCEPT !.outbox_id = 1],
     [Item("refund", "r1", "create", RefundPayload("u1")) EXCEPT !.outbox_id = 1],
     [Item("shift", "s1", "create", OpenShiftPayload("open")) EXCEPT !.outbox_id = 1],
     [Item("cash_event", "c1", "create", CashPayload("in", "s1")) EXCEPT !.outbox_id = 1]}

InitConc ==
    /\ naming \in {"field", "hash"}
    /\ dev = "mixed"
    /\ store = EmptyStore
    /\ pc = "idle"
    /\ batch = <<>>
    /\ pos = 0
    /\ processed = <<>>
    /\ failed = <<>>
    /\ before = EmptyStore
    /\ sent = 0
    /\ replayed = FALSE
    /\ faulted = FALSE
    /\ last = NoItem
    /\ acked = {}
    /\ catalog = NoCatalog
    /\ pulled = <<NoPull, NoPull>>
    /\ \E i1 \in ConcItems, i2 \in ConcItems :
          txs = [r \in Reqs |->
                   [pc |-> "lookup", item |-> IF r = 1 THEN i1 ELSE i2, snap |-> EmptyStore,
                    view |-> EmptyStore, processed |-> <<>>, failed |-> <<>>]]

seqVars == <<naming, dev, pc, batch, pos, processed, failed, before, sent, replayed,
             faulted, last, acked>>

\* Rows the transaction of view v (over snapshot s) inserted into a table.
Inserted(s, v, kind) == TableOf(v, kind) \ TableOf(s, kind)

\* frappe.db.get_value at the head of the handler: the transaction's reads see
\* the database as committed now.
CLookup(r) ==
    /\ txs[r].pc = "lookup"
    /\ txs' = [txs EXCEPT ![r].pc = "write", ![r].snap = store]
    /\ UNCHANGED <<store, seqVars, catalog, pulled>>

\* Another request holds an uncommitted row of this name, or the row of the
\* naming series: the insert waits for that transaction to end.
Waits(r, kind, name) ==
    \E q \in Reqs \ {r} :
        /\ txs[q].pc = "commit"
        /\ \/ \E x \in Inserted(txs[q].snap, txs[q].view, kind) : x.name = name
           \/ (kind = "order" /\ txs[q].view.series # txs[q].snap.series)

\* The rest of the handler: new_doc, make_autoname (which reads the committed
\* series), doc.insert against the primary key, then processed.append; on an
\* exception rollback and failed.append.
CWrite(r) ==
    LET t == txs[r]
        seen == [t.snap EXCEPT !.series = store.series]
        h == Dispatch(r, naming, seen, t.item, "none")
        kind == t.item.entity_type
        new == Inserted(seen, h.db, kind)
        clash == \E x \in new : \E y \in TableOf(store, kind) : y.name = x.name
    IN  /\ t.pc = "write"
        /\ \A x \in new : ~Waits(r, kind, x.name)
        /\ txs' = IF h.err # None
                  THEN [txs EXCEPT ![r].pc = "done",
                                   ![r].failed = Append(@, FailedEntry(t.item, h.err))]
                  ELSE IF clash
                  THEN [txs EXCEPT ![r].pc = "done",
                                   ![r].failed = Append(@, FailedEntry(t.item, "DuplicateEntryError"))]
                  ELSE [txs EXCEPT ![r].pc = "commit", ![r].snap = seen, ![r].view = h.db,
                                   ![r].processed = Append(@, ProcessedEntry(t.item, h.ret))]
        /\ UNCHANGED <<store, seqVars, catalog, pulled>>

\* The rows of one table after the transaction's inserts and updates.
Merged(db, s, v, kind) ==
    (TableOf(db, kind) \ (TableOf(s, kind) \ TableOf(v, kind))) \cup Inserted(s, v, kind)

\* frappe.db.commit(), and the response.
CCommit(r) ==
    LET t == txs[r] IN
    /\ t.pc = "commit"
    /\ store' = [orders |-> Merged(store, t.snap, t.view, "order"),
                 refunds |-> Merged(store, t.snap, t.view, "refund"),
                 shifts |-> Merged(store, t.snap, t.view, "shift"),
                 cash_events |-> Merged(store, t.snap, t.view, "cash_event"),
                 series |-> t.view.series]
    /\ txs' = [txs EXCEPT ![r].pc = "done"]
    /\ UNCHANGED <<seqVars, catalog, pulled>>

NextConc == \E r \in Reqs : CLookup(r) \/ CWrite(r) \/ CCommit(r)

SpecConc == InitConc /\ [][NextConc]_vars

\* ------------------------------------------------------- the pull path
InitCatalog ==
    /\ naming = "field"
    /\ dev = "sales"
    /\ store = EmptyStore
    /\ pc = "idle"
    /\ batch = <<>>
    /\ pos = 0
    /\ processed = <<>>
    /\ failed = <<>>
    /\ before = EmptyStore
    /\ sent = 0
    /\ replayed = FALSE
    /\ faulted = FALSE
    /\ last = NoItem
    /\ acked = {}
    /\ txs = <<>>
    /\ catalog \in ItemCatalogs \cup GroupCatalogs
    /\ pulled = <<NoPull, NoPull>>

\* A request arrives and is answered: pull_catalog(since). It reads only.
PullCatalog(since) ==
    /\ \E page \in Pages(MatchingItems(catalog.items, GetDatetime(since))) :
          pulled' = <<pulled[2], Response(since, page, catalog.groups)>>
    /\ UNCHANGED <<store, seqVars, txs, catalog>>

NextCatalog == \E since \in Sinces : PullCatalog(since)

SpecCatalog == InitCatalog /\ [][NextCatalog]_vars


\* ------------------------------------------------------------------ claims
RecordsWith(db, kind, uuid) == {r \in TableOf(db, kind) : r.client_uuid = uuid}

IsRecord(item) == item.shape = "dict"

SameItem(a, b) ==
    /\ IsRecord(a)
    /\ IsRecord(b)
    /\ [a EXCEPT !.outbox_id = 0] = [b EXCEPT !.outbox_id = 0]

\* C1: with no store failure, every entry a response lists in processed for
\* one entity kind and client_uuid carries one and the same server_id, however
\* often the item was sent (in one batch or over several), and the store
\* holds exactly one record of that kind with that client_uuid.
C1_Idempotent ==
    ~faulted =>
        \A a \in acked :
            /\ \A b \in acked :
                  (a.entity_type = b.entity_type /\ a.entity_uuid = b.entity_uuid)
                      => a.server_id = b.server_id
            /\ Cardinality(RecordsWith(store, a.entity_type, a.entity_uuid)) = 1

\* One response acknowledged the same item twice, and a resent batch did again.
C1_Witness ==
    /\ ~faulted
    /\ pc = "returned"
    /\ replayed
    /\ Len(batch) = 2
    /\ SameItem(batch[1], batch[2])
    /\ Len(processed) = 2
    /\ processed[1].server_id = processed[2].server_id
    /\ Cardinality(acked) = 1

\* C2: a returned response lists every submitted item exactly once, in
\* processed or in failed, whatever happened to the item (the commit after
\* its handler raising included).
C2_EachItemOnce ==
    pc = "returned" =>
        /\ Len(processed) + Len(failed) = Len(batch)
        /\ \A i \in 1..Len(batch) :
              Cardinality({j \in 1..Len(processed) : processed[j].outbox_id = i})
            + Cardinality({j \in 1..Len(failed) : failed[j].outbox_id = i}) = 1

\* An item of the batch that is no SyncItem at all, or names no entity kind.
Malformed(item) == ~IsRecord(item) \/ item.entity_type \notin Kinds

Valid(item) ==
    /\ IsRecord(item)
    /\ item.entity_type \in Kinds
    /\ item.payload.shape = "dict"

OneMalformed(b) ==
    /\ Cardinality({i \in 1..Len(b) : Malformed(b[i])}) = 1
    /\ \A i \in 1..Len(b) : Malformed(b[i]) \/ Valid(b[i])

WithoutMalformed(b) == SelectSeq(b, LAMBDA x : ~Malformed(x))

ServerIds(p) == [i \in 1..Len(p) |-> p[i].server_id]

\* What C3 promises of a finished request whose batch holds one malformed item.
Isolated ==
    /\ pc = "returned"
    /\ Len(processed) = Len(batch) - 1
    /\ Len(failed) = 1
    /\ LET alone == RunBatch(0, naming, before, WithoutMalformed(batch))
       IN  /\ store = alone.store
           /\ ServerIds(processed) = ServerIds(alone.processed)

\* C3: a batch of one malformed item and N valid ones, with no store failure,
\* ends with N entries in processed and 1 in failed wherever the malformed
\* item stands, and with the server_ids and records the N valid items get
\* without it.
C3_BatchIsolation ==
    (pos = Len(batch) \/ pc = "aborted") /\ pc # "idle" /\ ~faulted /\ OneMalformed(batch)
        => Isolated

\* The part of C3 the code keeps: the malformed item is a record of an
\* unknown entity_type.
C3_UnknownKindIsolated ==
    /\ (pos = Len(batch) \/ pc = "aborted")
    /\ pc = "returned"
    /\ ~faulted
    /\ OneMalformed(batch)
    /\ \A i \in 1..Len(batch) : IsRecord(batch[i])
    => Isolated

\* C4: no error of an item makes push_batch raise; the error is the item's
\* entry in failed and the loop goes on to the next item.
C4_NoErrorEscapes ==
    /\ pc # "aborted"
    /\ (pc = "running" /\ pos > 0 /\ last.outcome # "ok")
          => /\ Len(failed) > 0
             /\ IsRecord(last.item)
             /\ failed[Len(failed)].outbox_id = last.item.outbox_id

\* C6: a batch sent again after it was processed, with no store failure,
\* leaves every persisted record (each Order's status included) as the first
\* submission left it.
C6_ReplayChangesNothing ==
    (replayed /\ pc = "returned" /\ ~faulted) => store = before

IsKind(item, kind) == IsRecord(item) /\ item.entity_type = kind /\ item.payload.shape = "dict"

\* The request is one batch of the two items a, b on a store that knows neither.
FreshPair(a, b) ==
    /\ pc = "returned"
    /\ ~faulted
    /\ Len(batch) = 2
    /\ batch[1] = a
    /\ batch[2] = b
    /\ RecordsWith(before, a.entity_type, a.entity_uuid) = {}
    /\ RecordsWith(before, b.entity_type, b.entity_uuid) = {}

\* Order o and Refund r of the store are linked, and o is marked.
Linked(o, r) == r.original_order = o.name /\ o.status = "Refunded"

\* C7: in one batch, an Order followed by a Refund of it gives a Refund whose
\* original_order is the Order's server identifier and an Order of status
\* "Refunded"; the Refund first gives a Refund without original_order and an
\* Order of the status its payload gave at creation, not corrected later in
\* the batch.
C7_OrderingDependentLinkage ==
    \A a \in {batch[i] : i \in 1..Len(batch)}, b \in {batch[i] : i \in 1..Len(batch)} :
        /\ (IsKind(a, "order") /\ IsKind(b, "refund") /\ b.payload.order_uuid = a.entity_uuid
              /\ FreshPair(a, b))
            => \E o \in store.orders, r \in store.refunds :
                  /\ o.client_uuid = a.entity_uuid
                  /\ r.client_uuid = b.entity_uuid
                  /\ o.name = processed[1].server_id
                  /\ Linked(o, r)
        /\ (IsKind(a, "order") /\ IsKind(b, "refund") /\ b.payload.order_uuid = a.entity_uuid
              /\ FreshPair(b, a))
            => \E o \in store.orders, r \in store.refunds :
                  /\ o.client_uuid = a.entity_uuid
                  /\ r.client_uuid = b.entity_uuid
                  /\ r.original_order = None
                  /\ o.status = Get(a.payload.order, "status", "Completed")

\* The Order came first and the Refund found it.
C7_Witness ==
    /\ Len(batch) = 2
    /\ IsKind(batch[1], "order")
    /\ IsKind(batch[2], "refund")
    /\ batch[2].payload.order_uuid = batch[1].entity_uuid
    /\ FreshPair(batch[1], batch[2])
    /\ \E o \in store.orders, r \in store.refunds : Linked(o, r)

\* The Refund came first: it stays unlinked and the Order keeps its status.
C7_WitnessReverse ==
    /\ Len(batch) = 2
    /\ IsKind(batch[2], "order")
    /\ IsKind(batch[1], "refund")
    /\ batch[1].payload.order_uuid = batch[2].entity_uuid
    /\ FreshPair(batch[1], batch[2])
    /\ \E o \in store.orders, r \in store.refunds :
          r.original_order = None /\ o.status = "Completed"

\* C6 for the Orders alone: the replay leaves every Order as it was.
C6_ReplayKeepsOrders ==
    (replayed /\ pc = "returned" /\ ~faulted) => store.orders = before.orders

\* C8: when the write of status "Refunded" to the resolved Order raises, the
\* Refund inserted just before it is still persisted.
C8_RefundSurvivesCascadeFailure ==
    (IsRecord(last.item) /\ last.item.entity_type = "refund" /\ last.f = "set_value")
        => RecordsWith(store, "refund", last.item.entity_uuid) # {}

\* C9: every entry of processed in a returned response names a committed
\* record: the store holds a record of the item's kind with that client_uuid
\* whose name is the entry's server_id.
C9_ProcessedIsDurable ==
    pc = "returned" =>
        \A i \in 1..Len(processed) :
            \E r \in RecordsWith(store, batch[processed[i].outbox_id].entity_type,
                                 processed[i].entity_uuid) :
                r.name = processed[i].server_id

\* The loop has just passed a closing Shift item (payload status "closed")
\* for a client_uuid the store already holds, and nothing raised.
ClosingStep(item) ==
    /\ pc = "running"
    /\ pos < Len(batch)
    /\ pos' = pos + 1
    /\ item = batch[pos + 1]
    /\ IsKind(item, "shift")
    /\ item.payload.status = "closed"
    /\ RecordsWith(store, "shift", item.entity_uuid) # {}
    /\ last'.outcome = "ok"

ClosedBy(doc, payload) ==
    /\ doc.status = "Closed"
    /\ doc.closed_at = payload.closed_at
    /\ doc.expected_cash = payload.expected_cash
    /\ doc.counted_cash = payload.counted_cash
    /\ doc.variance = payload.variance

\* C10: an item with payload status "closed" for the client_uuid of a Shift
\* created before leaves a single Shift record of that client_uuid, status
\* "Closed", with closed_at, expected_cash, counted_cash and variance of the
\* closing payload, and the response carries the Shift's server identifier;
\* the same closing item sent again changes nothing in the store.
C10_ShiftTransition ==
    [][\A item \in {batch[i] : i \in 1..Len(batch)} :
          ClosingStep(item) =>
              LET old == CHOOSE r \in RecordsWith(store, "shift", item.entity_uuid) : TRUE
                  now == RecordsWith(store', "shift", item.entity_uuid)
              IN  /\ Cardinality(now) = 1
                  /\ \A r \in now :
                        /\ ClosedBy(r, item.payload)
                        /\ r.name = old.name
                        /\ [r EXCEPT !.status = old.status, !.closed_at = old.closed_at,
                                      !.expected_cash = old.expected_cash,
                                      !.counted_cash = old.counted_cash,
                                      !.variance = old.variance] = old
                  /\ processed'[Len(processed')].server_id = old.name
                  /\ ClosedBy(old, item.payload) => store' = store
      ]_vars

\* A Shift opened by payload status "open", closed, and the batch sent again:
\* the closing item passed a second time and the record kept its figures.
C10_Witness ==
    /\ replayed
    /\ pc = "returned"
    /\ ~faulted
    /\ Len(batch) = 2
    /\ IsKind(batch[1], "shift")
    /\ batch[1].payload.status = "open"
    /\ IsKind(batch[2], "shift")
    /\ batch[2].payload.status = "closed"
    /\ batch[2].entity_uuid = batch[1].entity_uuid
    /\ Len(processed) = 2
    /\ processed[1].server_id = processed[2].server_id
    /\ store = before
    /\ \E r \in store.shifts : ClosedBy(r, batch[2].payload) /\ r.variance # None

\* Both requests carry a create for the same kind and client_uuid.
SameCreate ==
    /\ txs[1].item = txs[2].item
    /\ txs[1].item.operation = "create"

\* C5: two concurrent requests that create the same kind and client_uuid end,
\* in every interleaving, with one record of that client_uuid, and both
\* responses list the item in processed with the one record's server_id.
C5_RaceResolvesToOneRecord ==
    (txs # <<>> /\ SameCreate /\ \A r \in Reqs : txs[r].pc = "done") =>
        LET recs == RecordsWith(store, txs[1].item.entity_type, txs[1].item.entity_uuid)
        IN  /\ Cardinality(recs) = 1
            /\ \A r \in Reqs :
                  /\ txs[r].failed = <<>>
                  /\ Len(txs[r].processed) = 1
                  /\ \A x \in recs : txs[r].processed[1].server_id = x.name

\* The part of C5 the code keeps under field:client_uuid naming: one record.
C5_OneRecordUnderFieldNaming ==
    (txs # <<>> /\ naming = "field") =>
        \A k \in Kinds : \A x \in TableOf(store, k), y \in TableOf(store, k) :
            x.client_uuid = y.client_uuid => x = y

\* The fields of a Shift that only its creation sets.
SameOpening(s, t) ==
    /\ t.client_uuid = s.client_uuid
    /\ t.device_id = s.device_id
    /\ t.cashier = s.cashier
    /\ t.opened_at = s.opened_at
    /\ t.float_amount = s.float_amount

\* C11: no step changes a Shift whose status is already "Closed" (a second
\* "closed" payload with other figures included), and no step changes the
\* cashier, opened_at, float_amount or device_id of any Shift.
C11_ClosedShiftIsFrozen ==
    [][\A s \in store.shifts :
          /\ \E t \in store'.shifts : t.name = s.name /\ SameOpening(s, t)
          /\ s.status = "Closed" => s \in store'.shifts
      ]_vars

\* The part of C11 the code keeps: the opening fields of a Shift never change.
C11_OpeningFieldsKept ==
    [][\A s \in store.shifts :
          \E t \in store'.shifts : t.name = s.name /\ SameOpening(s, t)
      ]_vars

\* The loop is passing over item, the next of the batch.
Processing(item) ==
    /\ pc = "running"
    /\ pos < Len(batch)
    /\ pos' = pos + 1
    /\ item = batch[pos + 1]

\* C12: once an Order exists, no step changes any of its fields other than
\* status (receipt_number, totals, lines and payments included), and an item
\* with operation "create" for a client_uuid that already has an Order leaves
\* the store as it was.
C12_OrderFrozenButStatus ==
    [][/\ \A o \in store.orders :
             \E t \in store'.orders :
                 /\ t.name = o.name
                 /\ [t EXCEPT !.status = o.status] = o
       /\ \A i \in 1..Len(batch) :
             (/\ Processing(batch[i])
              /\ IsKind(batch[i], "order")
              /\ batch[i].operation = "create"
              /\ RecordsWith(store, "order", batch[i].entity_uuid) # {})
                 => store' = store
      ]_vars

\* An update item carrying another total changed the status of an Order and
\* nothing else, and a replayed create left that Order alone.
C12_Witness ==
    /\ pc = "returned"
    /\ replayed
    /\ ~faulted
    /\ Len(batch) = 2
    /\ IsKind(batch[1], "order")
    /\ IsKind(batch[2], "order")
    /\ batch[1].operation = "create"
    /\ batch[2].operation = "update"
    /\ batch[2].entity_uuid = batch[1].entity_uuid
    /\ batch[2].payload.order.total # batch[1].payload.order.total
    /\ \E o \in store.orders :
          /\ o.client_uuid = batch[1].entity_uuid
          /\ o.status = batch[2].payload.order.status
          /\ o.status # Get(batch[1].payload.order, "status", "Completed")
          /\ o.grand_total = batch[1].payload.order.total
          /\ o.receipt_number = 1

\* A Refund stored without the link to its Order.
Unlinked(r) == r.original_order = None

\* C14: a Refund stored without original_order converges: once its Order
\* exists and a later batch carrying the Refund item has been processed
\* without any failure, the Refund's original_order is the Order's server
\* identifier and the Order's status is "Refunded".
C14_RefundConverges ==
    (pc = "returned" /\ ~faulted) =>
        \A i \in 1..Len(batch) :
            (/\ IsKind(batch[i], "refund")
             /\ \E r \in before.refunds :
                   r.client_uuid = batch[i].entity_uuid /\ Unlinked(r)
             /\ \E o \in before.orders :
                   o.client_uuid = batch[i].payload.order_uuid)
                => \E r \in store.refunds, o \in store.orders :
                      /\ r.client_uuid = batch[i].entity_uuid
                      /\ o.client_uuid = batch[i].payload.order_uuid
                      /\ Linked(o, r)

\* C15: a pass of the loop that adds an entry to failed leaves the store
\* exactly as it was before the item began: nothing the item wrote persists
\* (for a Refund neither the Refund nor the Order's status), and what earlier
\* items of the batch committed is still there.
C15_FailedItemLeavesStore ==
    [][\A i \in 1..Len(batch) :
          (Processing(batch[i]) /\ Len(failed') > Len(failed)) => store' = store
      ]_vars

\* The second item of a batch, a Refund of the Order the first item created,
\* failed at the write of the Order's status after its own insert.
C15_Witness ==
    /\ pc = "running"
    /\ pos = 2
    /\ IsKind(batch[1], "order")
    /\ IsKind(batch[2], "refund")
    /\ last.item = batch[2]
    /\ last.f = "set_value"
    /\ last.outcome = "failed"
    /\ Len(processed) = 1
    /\ Len(failed) = 1
    /\ failed[1].outbox_id = 2
    /\ RecordsWith(store, "refund", batch[2].entity_uuid) = {}
    /\ \E o \in store.orders :
          /\ o.client_uuid = batch[2].payload.order_uuid
          /\ o.name = processed[1].server_id
          /\ o.status # "Refunded"

\* The records of kind k that are not the item's own record.
Others(db, item, k) ==
    {r \in TableOf(db, k) : ~(k = item.entity_type /\ r.client_uuid = item.entity_uuid)}

\* C16 as stated: a pass of the loop over an item changes no record of
\* another kind or of another client_uuid.
C16_WritesOwnRecordOnly ==
    [][\A i \in 1..Len(batch) :
          (Processing(batch[i]) /\ IsRecord(batch[i]))
              => \A k \in Kinds : Others(store', batch[i], k) = Others(store, batch[i], k)
      ]_vars

\* C16, amended: a pass of the loop over an item changes no record of another
\* kind or of another client_uuid, except that the pass which creates a Refund
\* sets the status of the Order with the Refund's order_uuid to "Refunded" and
\* changes nothing else of it.
C16_WritesOwnRecordOrCascade ==
    [][\A i \in 1..Len(batch) :
          (Processing(batch[i]) /\ IsRecord(batch[i]))
              => \A k \in Kinds :
                    \/ Others(store', batch[i], k) = Others(store, batch[i], k)
                    \/ /\ k = "order"
                       /\ IsKind(batch[i], "refund")
                       /\ RecordsWith(store, "refund", batch[i].entity_uuid) = {}
                       /\ RecordsWith(store', "refund", batch[i].entity_uuid) # {}
                       /\ store'.orders =
                             {IF o.client_uuid = batch[i].payload.order_uuid
                              THEN [o EXCEPT !.status = "Refunded"] ELSE o
                                : o \in store.orders}
      ]_vars

\* The pass over a Refund item has just stored the Refund and set the Order
\* created by the item before it to "Refunded".
C16_Witness ==
    /\ pc = "running"
    /\ pos = 2
    /\ IsKind(batch[1], "order")
    /\ IsKind(batch[2], "refund")
    /\ last.item = batch[2]
    /\ last.outcome = "ok"
    /\ batch[1].payload.order.total # "0"
    /\ RecordsWith(before, "order", batch[1].entity_uuid) = {}
    /\ \E o \in store.orders, r \in store.refunds :
          /\ o.client_uuid = batch[1].entity_uuid
          /\ r.client_uuid = batch[2].entity_uuid
          /\ r.order_uuid = o.client_uuid
          /\ o.status = "Refunded"
          /\ o.grand_total = batch[1].payload.order.total

\* C18: no step changes a stored Refund or a stored CashEvent, whatever the
\* kind, client_uuid, operation and payload of the item, and an item for a
\* Refund that exists already writes nothing at all, the status of the
\* referenced Order included.
C18_RefundAndCashEventFrozen ==
    [][/\ store.refunds \subseteq store'.refunds
       /\ store.cash_events \subseteq store'.cash_events
       /\ \A i \in 1..Len(batch) :
             (/\ Processing(batch[i])
              /\ IsRecord(batch[i])
              /\ batch[i].entity_type = "refund"
              /\ RecordsWith(store, "refund", batch[i].entity_uuid) # {})
                 => store' = store
      ]_vars

\* A linked Refund was sent again after an update item had set its Order to
\* another status: the replay left Refund and Order alone.
C18_Witness ==
    /\ pc = "running"
    /\ replayed
    /\ ~faulted
    /\ pos = 2
    /\ last.outcome = "ok"
    /\ IsKind(batch[1], "order")
    /\ batch[1].operation = "update"
    /\ IsKind(batch[2], "refund")
    /\ last.item = batch[2]
    /\ \E o \in store.orders, r \in store.refunds :
          /\ r.client_uuid = batch[2].entity_uuid
          /\ r \in before.refunds
          /\ r.original_order = o.name
          /\ o.status = batch[1].payload.order.status
          /\ o.status # "Refunded"

\* C19: in every state, a stored Refund whose original_order is set names a
\* stored Order whose client_uuid is the Refund's order_uuid, also after
\* batches in which items failed and were rolled back.
C19_LinkedRefundHasItsOrder ==
    \A r \in store.refunds :
        ~Unlinked(r) =>
            \E o \in store.orders :
                o.name = r.original_order /\ o.client_uuid = r.order_uuid

\* A linked Refund is stored, and a later pass over an item failed and was
\* rolled back.
C19_Witness ==
    /\ faulted
    /\ Len(failed) > 0
    /\ last.outcome = "failed"
    /\ \E r \in store.refunds, o \in store.orders :
          /\ ~Unlinked(r)
          /\ o.name = r.original_order
          /\ o.client_uuid = r.order_uuid

\* C20: a Shift whose status is "Closed" is still stored with status "Closed"
\* after every step, also after the pass over an item of its client_uuid
\* whose payload status is "open".
C20_ClosedStaysClosed ==
    [][\A s \in store.shifts :
          s.status = "Closed" =>
              \E t \in store'.shifts : t.name = s.name /\ t.status = "Closed"
      ]_vars

\* The loop has just passed, without failure, over an item with payload status
\* "open" for a Shift that was Closed before the batch began, and it is Closed.
C20_Witness ==
    /\ pc = "running"
    /\ pos > 0
    /\ last.outcome = "ok"
    /\ last.item = batch[pos]
    /\ IsKind(last.item, "shift")
    /\ last.item.payload.status = "open"
    /\ \E s \in store.shifts :
          /\ s.client_uuid = last.item.entity_uuid
          /\ s.status = "Closed"
          /\ \E b \in before.shifts : b.name = s.name /\ b.status = "Closed"

\* The responses kept in pulled.
Pulls == {r \in {pulled[1], pulled[2]} : r.since # None}

Uuids(r) == {r.products[i].uuid : i \in 1..Len(r.products)}

\* The instant a product's updated_at names.
ParseStr(s) == CHOOSE t \in Times : Str(t) = s

\* The rows of the Item master a response's products were made from.
RowsOf(r) == {i \in catalog.items : i.name \in Uuids(r)}

\* C13: over one catalog, for two pulls with since t1 < t2, every product of
\* the pull at t2 is a product of the pull at t1 (also when more rows match
\* than the page holds and when rows share one modified timestamp), and every
\* product of the pull at t2 has updated_at >= t2.
C13_DeltaMonotone ==
    \A a \in Pulls, b \in Pulls :
        GetDatetime(a.since) < GetDatetime(b.since) =>
            /\ Uuids(b) \subseteq Uuids(a)
            /\ \A i \in 1..Len(b.products) :
                  ParseStr(b.products[i].updated_at) >= GetDatetime(b.since)

\* The part of C13 the code keeps: every product's updated_at is at or after
\* the since of its pull.
C13_UpdatedAtNotBeforeSince ==
    \A b \in Pulls :
        \A i \in 1..Len(b.products) :
            ParseStr(b.products[i].updated_at) >= GetDatetime(b.since)

\* The row at which the page of response r was cut shares its modified
\* timestamp with a matching row left out.
TieAtCut(r) ==
    \E i \in RowsOf(r), o \in MatchingItems(catalog.items, GetDatetime(r.since)) \ RowsOf(r) :
        i.modified = o.modified

\* The subset of C13 holds whenever neither page was cut inside a group of
\* rows of equal modified.
C13_MonotoneWithoutTieAtCut ==
    \A a \in Pulls, b \in Pulls :
        (GetDatetime(a.since) < GetDatetime(b.since) /\ ~TieAtCut(a) /\ ~TieAtCut(b))
            => Uuids(b) \subseteq Uuids(a)

\* The rows of the Item Group master a response's categories were made from.
GroupsOf(r) == {g \in catalog.groups : \E c \in r.categories : c.uuid = g.name}

\* Response r holds a page of the matching Items: no more than PageLimit, all
\* modified at or after since, in descending order of modified, none older
\* than a matching row left out, and all of them when they fit; count is
\* their number.
ProductsPage(r) ==
    LET since_dt == GetDatetime(r.since)
        n == Len(r.products)
        all == MatchingItems(catalog.items, since_dt)
        at(i) == ParseStr(r.products[i].updated_at)
    IN  /\ n <= PageLimit
        /\ Cardinality(Uuids(r)) = n
        /\ RowsOf(r) \subseteq all
        /\ \A i \in 1..n : at(i) >= since_dt
        /\ \A i, j \in 1..n : i < j => at(i) >= at(j)
        /\ \A o \in all \ RowsOf(r) : n = PageLimit /\ \A i \in 1..n : at(i) >= o.modified
        /\ r.count = n

\* C17: every response holds only entities modified at or after since, at
\* most a page of products and at most a page of categories; when more
\* products match than the page holds, the page is the most recently modified
\* ones in descending order; count is the number of products.
C17_BoundedDelta ==
    \A r \in Pulls :
        /\ ProductsPage(r)
        /\ \A g \in GroupsOf(r) : g.modified >= GetDatetime(r.since)
        /\ Cardinality(r.categories) <= PageLimit

\* The part of C17 the code keeps: the products are a page as described, and
\* every category was modified at or after since.
C17_ProductsBoundedCategoriesFiltered ==
    \A r \in Pulls :
        /\ ProductsPage(r)
        /\ \A g \in GroupsOf(r) : g.modified >= GetDatetime(r.since)

====
